---- MODULE Spec2Model ----
(***************************************************************************)
(* Model of package strct (jobbitz/strct): the recursive field scanner     *)
(* ScanAll/Scan and the string coercion routines Parse/ParseHard.          *)
(*                                                                         *)
(* A text is a sequence of one-character strings.  A reflect.Value is a    *)
(* record carrying the permission flags the reflect package keeps for it   *)
(* (flagAddr, flagRO), the place it refers to and its kind.                *)
(***************************************************************************)
EXTENDS Integers, Sequences, FiniteSets, TLC

(***************************************************************************)
(* Bounds of the model.                                                    *)
(***************************************************************************)
\* Number of Parse/ParseHard calls applied to one location in a behaviour.
MaxOps == 2

(***************************************************************************)
(* Texts.                                                                  *)
(***************************************************************************)
DigitChars == <<"0","1","2","3","4","5","6","7","8","9","a","b","c","d","e","f">>

IsDecDigit(c) == \E i \in 1..10 : DigitChars[i] = c

\* The value of a digit character as strconv.ParseUint reads it; 99 stands
\* for "not a digit" (the default branch that yields a syntax error).
\* Upper-case letters and '_' are not in the alphabet of the texts used here.
DigitVal(c) ==
  IF \E i \in 1..16 : DigitChars[i] = c
    THEN (CHOOSE i \in 1..16 : DigitChars[i] = c) - 1
    ELSE 99

SpaceChars == {" ", "\t", "\n", "\r"}

RECURSIVE TrimLeft(_)
TrimLeft(s) ==
  IF s # <<>> /\ Head(s) \in SpaceChars THEN TrimLeft(Tail(s)) ELSE s

RECURSIVE TrimRight(_)
TrimRight(s) ==
  IF s # <<>> /\ s[Len(s)] \in SpaceChars
    THEN TrimRight(SubSeq(s, 1, Len(s) - 1))
    ELSE s

\* strings.TrimSpace
TrimSpace(s) == TrimRight(TrimLeft(s))

\* strings.Split(s, sep) for a one-character separator: Count(sep)+1 parts.
RECURSIVE SplitAcc(_, _, _)
SplitAcc(s, sep, cur) ==
  IF s = <<>> THEN <<cur>>
  ELSE IF Head(s) = sep THEN <<cur>> \o SplitAcc(Tail(s), sep, <<>>)
  ELSE SplitAcc(Tail(s), sep, Append(cur, Head(s)))

Split(s, sep) == SplitAcc(s, sep, <<>>)

\* Decimal rendering of a natural number (strconv.FormatInt on n >= 0).
RECURSIVE NatText(_)
NatText(n) ==
  IF n < 10 THEN <<DigitChars[n + 1]>>
  ELSE Append(NatText(n \div 10), DigitChars[(n % 10) + 1])

IntText(n) == IF n < 0 THEN <<"-">> \o NatText(-n) ELSE NatText(n)

RECURSIVE JoinTexts(_, _)
JoinTexts(ts, sep) ==
  IF ts = <<>> THEN <<>>
  ELSE IF Len(ts) = 1 THEN ts[1]
  ELSE ts[1] \o sep \o JoinTexts(Tail(ts), sep)

(***************************************************************************)
(* strconv: ParseBool, ParseUint, ParseInt, ParseFloat.                    *)
(* Every result is a record [err, v]; err = "nil" means success.           *)
(***************************************************************************)
Ok(v) == [err |-> "nil", v |-> v]
Fail(e, v) == [err |-> e, v |-> v]

TrueTexts == { <<"1">>, <<"t">>, <<"T">>, <<"T","R","U","E">>,
               <<"t","r","u","e">>, <<"T","r","u","e">> }
FalseTexts == { <<"0">>, <<"f">>, <<"F">>, <<"F","A","L","S","E">>,
                <<"f","a","l","s","e">>, <<"F","a","l","s","e">> }

ParseBool(s) ==
  IF s \in TrueTexts THEN Ok(TRUE)
  ELSE IF s \in FalseTexts THEN Ok(FALSE)
  ELSE Fail("ErrSyntax", FALSE)

\* The range check of strconv for the destination's bit width.  TLC's
\* integers hold 2^bits only for the narrow widths; every text of the model
\* denotes a value far below 2^63, so the 64-bit check never rejects (and
\* MaxUintOf and the cutoff of ParseInt are never consulted for 64 bits).
FitsUint(n, bits) == IF bits > 30 THEN TRUE ELSE n <= 2^bits - 1
MaxUintOf(bits) == IF bits > 30 THEN 2147483647 ELSE 2^bits - 1

\* The digit loop of strconv.ParseUint.
RECURSIVE UintLoop(_, _, _, _)
UintLoop(s, base, bits, n) ==
  IF s = <<>> THEN Ok(n)
  ELSE LET d == DigitVal(Head(s)) IN
       IF d >= base THEN Fail("ErrSyntax", 0)
       ELSE IF ~FitsUint(n * base + d, bits) THEN Fail("ErrRange", MaxUintOf(bits))
       ELSE UintLoop(Tail(s), base, bits, n * base + d)

\* strconv.ParseUint(s, 0, bits): the base comes from the prefix.
ParseUint(s, bits) ==
  IF s = <<>> THEN Fail("ErrSyntax", 0)
  ELSE IF Head(s) = "0"
    THEN IF Len(s) >= 3 /\ s[2] = "b" THEN UintLoop(SubSeq(s, 3, Len(s)), 2, bits, 0)
         ELSE IF Len(s) >= 3 /\ s[2] = "o" THEN UintLoop(SubSeq(s, 3, Len(s)), 8, bits, 0)
         ELSE IF Len(s) >= 3 /\ s[2] = "x" THEN UintLoop(SubSeq(s, 3, Len(s)), 16, bits, 0)
         ELSE UintLoop(Tail(s), 8, bits, 0)
    ELSE UintLoop(s, 10, bits, 0)

\* strconv.ParseInt(s, 0, bits)
ParseInt(s, bits) ==
  IF s = <<>> THEN Fail("ErrSyntax", 0)
  ELSE LET neg  == Head(s) = "-"
           rest == IF Head(s) \in {"+", "-"} THEN Tail(s) ELSE s
           un   == ParseUint(rest, bits)
           cutoff == IF bits > 30 THEN 2147483647 ELSE 2^(bits - 1)
       IN IF un.err # "nil" /\ un.err # "ErrRange" THEN Fail(un.err, 0)
          ELSE IF ~neg /\ (un.err = "ErrRange" \/ (bits <= 30 /\ un.v >= cutoff))
            THEN Fail("ErrRange", cutoff - 1)
          ELSE IF neg /\ (un.err = "ErrRange" \/ (bits <= 30 /\ un.v > cutoff))
            THEN Fail("ErrRange", -cutoff)
          ELSE Ok(IF neg THEN -un.v ELSE un.v)

RECURSIVE LeadingDigits(_)
LeadingDigits(s) ==
  IF s # <<>> /\ IsDecDigit(Head(s)) THEN <<Head(s)>> \o LeadingDigits(Tail(s)) ELSE <<>>

RECURSIVE DecValue(_, _)
DecValue(s, n) ==
  IF s = <<>> THEN n ELSE DecValue(Tail(s), n * 10 + DigitVal(Head(s)))

RECURSIVE StripTrailingZeros(_)
StripTrailingZeros(s) ==
  IF s # <<>> /\ s[Len(s)] = "0"
    THEN StripTrailingZeros(SubSeq(s, 1, Len(s) - 1))
    ELSE s

\* A float is kept as an exact decimal: sign, integer part, fraction digits
\* without trailing zeros.
FloatZero == [neg |-> FALSE, ip |-> 0, fd |-> <<>>]

\* strconv.ParseFloat on decimal literals  [+-] digits [ . digits ]  with at
\* least one digit.  Exponents, hexadecimal floats, "inf" and "nan" are not
\* formed by the texts used here; any other text is a syntax error.
ParseFloat(s) ==
  LET neg  == s # <<>> /\ Head(s) = "-"
      r0   == IF s # <<>> /\ Head(s) \in {"+", "-"} THEN Tail(s) ELSE s
      ipd  == LeadingDigits(r0)
      r1   == SubSeq(r0, Len(ipd) + 1, Len(r0))
      dot  == r1 # <<>> /\ Head(r1) = "."
      r2   == IF dot THEN Tail(r1) ELSE r1
      fdd  == IF dot THEN LeadingDigits(r2) ELSE <<>>
      r3   == SubSeq(r2, Len(fdd) + 1, Len(r2))
  IN IF (ipd = <<>> /\ fdd = <<>>) \/ r3 # <<>>
       THEN Fail("ErrSyntax", FloatZero)
       ELSE Ok([neg |-> neg, ip |-> DecValue(ipd, 0), fd |-> StripTrailingZeros(fdd)])

(***************************************************************************)
(* time.Duration: the tick count (nanoseconds, an int64) is kept as        *)
(* sign, whole seconds and remaining nanoseconds, because 90 minutes of    *)
(* nanoseconds exceed the 32-bit integers of TLC.                          *)
(***************************************************************************)
NanosPerSecond == 1000000000

DurZero == [neg |-> FALSE, sec |-> 0, ns |-> 0]

Dur(neg, sec, ns) ==
  LET s2 == sec + (ns \div NanosPerSecond)
      n2 == ns % NanosPerSecond
  IN [neg |-> neg /\ (s2 # 0 \/ n2 # 0), sec |-> s2, ns |-> n2]

\* time.unitMap, each unit as <<seconds, nanoseconds>>.
UnitNames == { <<"n","s">>, <<"u","s">>, <<"m","s">>, <<"s">>, <<"m">>, <<"h">> }

UnitOf(u) ==
  CASE u = <<"n","s">> -> <<0, 1>>
    [] u = <<"u","s">> -> <<0, 1000>>
    [] u = <<"m","s">> -> <<0, 1000000>>
    [] u = <<"s">>     -> <<1, 0>>
    [] u = <<"m">>     -> <<60, 0>>
    [] u = <<"h">>     -> <<3600, 0>>

\* The unit name: everything up to the next '.' or digit.
RECURSIVE LeadingUnit(_)
LeadingUnit(s) ==
  IF s # <<>> /\ Head(s) # "." /\ ~IsDecDigit(Head(s))
    THEN <<Head(s)>> \o LeadingUnit(Tail(s))
    ELSE <<>>

RECURSIVE Pow10(_)
Pow10(k) == IF k = 0 THEN 1 ELSE 10 * Pow10(k - 1)

\* The loop of time.ParseDuration over  ( digits [. digits] unit )+ , adding
\* v*unit + f*unit/scale to the total.  Numbers of the texts used here have
\* at most three digits, so no intermediate product overflows an int64.
RECURSIVE DurLoop(_, _, _)
DurLoop(s, sec, ns) ==
  IF s = <<>> THEN Ok([sec |-> sec, ns |-> ns])
  ELSE IF ~(Head(s) = "." \/ IsDecDigit(Head(s))) THEN Fail("ErrDuration", DurZero)
  ELSE
    LET ipd   == LeadingDigits(s)
        r1    == SubSeq(s, Len(ipd) + 1, Len(s))
        dot   == r1 # <<>> /\ Head(r1) = "."
        r2    == IF dot THEN Tail(r1) ELSE r1
        fdd   == IF dot THEN LeadingDigits(r2) ELSE <<>>
        r3    == SubSeq(r2, Len(fdd) + 1, Len(r2))
        u     == LeadingUnit(r3)
        r4    == SubSeq(r3, Len(u) + 1, Len(r3))
    IN IF ipd = <<>> /\ fdd = <<>> THEN Fail("ErrDuration", DurZero)
       ELSE IF u = <<>> THEN Fail("ErrDuration", DurZero)
       ELSE IF u \notin UnitNames THEN Fail("ErrDuration", DurZero)
       ELSE
         LET v     == DecValue(ipd, 0)
             f     == DecValue(fdd, 0)
             scale == Pow10(Len(fdd))
             us    == UnitOf(u)[1]
             un    == UnitOf(u)[2]
             fsec  == (f * us) \div scale
             fns   == ((f * us) % scale) * (NanosPerSecond \div scale) + ((f * un) \div scale)
             tot   == Dur(FALSE, sec + v * us + fsec, ns + v * un + fns)
         IN DurLoop(r4, tot.sec, tot.ns)

\* time.ParseDuration
ParseDuration(s) ==
  LET neg  == s # <<>> /\ Head(s) = "-"
      rest == IF s # <<>> /\ Head(s) \in {"+", "-"} THEN Tail(s) ELSE s
  IN IF rest = <<"0">> THEN Ok(DurZero)
     ELSE IF rest = <<>> THEN Fail("ErrDuration", DurZero)
     ELSE LET r == DurLoop(rest, 0, 0)
          IN IF r.err # "nil" THEN r ELSE Ok(Dur(neg, r.v.sec, r.v.ns))

\* time.fmtFrac: the fraction n / 10^prec without trailing zeros, with its
\* leading '.', or nothing when the fraction is zero.
RECURSIVE PadDigits(_, _)
PadDigits(n, width) ==
  IF width = 0 THEN <<>>
  ELSE Append(PadDigits(n \div 10, width - 1), DigitChars[(n % 10) + 1])

FracText(n, prec) ==
  LET d == StripTrailingZeros(PadDigits(n, prec))
  IN IF d = <<>> THEN <<>> ELSE <<".">> \o d

\* time.Duration.String (the micro sign of the microsecond unit is written u)
DurationString(d) ==
  LET body ==
        IF d.sec = 0 /\ d.ns = 0 THEN <<"0","s">>
        ELSE IF d.sec = 0 THEN
          IF d.ns < 1000 THEN NatText(d.ns) \o <<"n","s">>
          ELSE IF d.ns < 1000000
            THEN NatText(d.ns \div 1000) \o FracText(d.ns % 1000, 3) \o <<"u","s">>
          ELSE NatText(d.ns \div 1000000) \o FracText(d.ns % 1000000, 6) \o <<"m","s">>
        ELSE
          LET secs == NatText(d.sec % 60) \o FracText(d.ns, 9) \o <<"s">>
              mins == d.sec \div 60
              hrs  == mins \div 60
          IN IF mins = 0 THEN secs
             ELSE IF hrs = 0 THEN NatText(mins % 60) \o <<"m">> \o secs
             ELSE NatText(hrs) \o <<"h">> \o NatText(mins % 60) \o <<"m">> \o secs
  IN IF d.neg THEN <<"-">> \o body ELSE body

(***************************************************************************)
(* Destination types and their values.                                     *)
(*   bool: BOOLEAN; int, int8, uint8: integers; float64: exact decimal;    *)
(*   string: text; time.Duration: sign/sec/ns; []int: sequence;            *)
(*   interfaces and pointers: a handle [set, name, driver], set = FALSE    *)
(*   being nil; records: RecordValue.                                      *)
(***************************************************************************)
NilHandle == [set |-> FALSE, name |-> <<>>, driver |-> <<>>]
RecordValue == [record |-> TRUE]

RecordTypes == {"Outer", "Inner", "Deep", "struct"}
PtrTypes == {"*Outer", "*Inner", "*Deep", "*int", "*os.File", "*sql.DB"}
FileTypes == {"*os.File", "io.Reader"}

\* reflect.Value.Kind of a value of type t
Kind(t) ==
  CASE t = "bool" -> "Bool"
    [] t \in {"int", "int8", "Duration"} -> "Int"
    [] t = "uint8" -> "Uint"
    [] t = "float64" -> "Float"
    [] t = "string" -> "String"
    [] t = "[]int" -> "Slice"
    [] t = "io.Reader" -> "Interface"
    [] t \in PtrTypes -> "Ptr"
    [] t \in RecordTypes -> "Struct"
    [] OTHER -> "Invalid"

\* reflect.Type.Bits
Bits(t) == IF t \in {"int8", "uint8"} THEN 8 ELSE 64

\* t.PkgPath() == "time" && t.Name() == "Duration"
IsDuration(t) == t = "Duration"

\* reflect.Type.Elem of a slice or pointer type
ElemType(t) ==
  CASE t = "[]int" -> "int"
    [] t = "*Outer" -> "Outer"
    [] t = "*Inner" -> "Inner"
    [] t = "*Deep" -> "Deep"
    [] t = "*int" -> "int"
    [] t = "*os.File" -> "struct"
    [] t = "*sql.DB" -> "struct"

\* The zero value of a type.
Zero(t) ==
  CASE Kind(t) = "Bool" -> FALSE
    [] Kind(t) \in {"Int", "Uint"} /\ ~IsDuration(t) -> 0
    [] IsDuration(t) -> DurZero
    [] Kind(t) = "Float" -> FloatZero
    [] Kind(t) \in {"String", "Slice"} -> <<>>
    [] Kind(t) \in {"Interface", "Ptr"} -> NilHandle
    [] OTHER -> RecordValue

FloatText(f) ==
  (IF f.neg THEN <<"-">> ELSE <<>>) \o NatText(f.ip)
     \o (IF f.fd = <<>> THEN <<>> ELSE <<".">> \o f.fd)

\* fmt.Sprint(fv.Interface()) for a value v of type t.  A non-nil pointer
\* renders as an address or as &{...}, a record as {...}.
RECURSIVE Render(_, _)
Render(t, v) ==
  CASE Kind(t) = "Bool" -> IF v THEN <<"t","r","u","e">> ELSE <<"f","a","l","s","e">>
    [] Kind(t) = "Int" /\ IsDuration(t) -> DurationString(v)
    [] Kind(t) = "Int" /\ ~IsDuration(t) -> IntText(v)
    [] Kind(t) = "Uint" -> NatText(v)
    [] Kind(t) = "Float" -> FloatText(v)
    [] Kind(t) = "String" -> v
    [] Kind(t) = "Slice" ->
         <<"[">> \o JoinTexts([i \in 1..Len(v) |-> Render(ElemType(t), v[i])], <<" ">>)
                 \o <<"]">>
    [] Kind(t) \in {"Interface", "Ptr"} ->
         IF ~v.set THEN <<"<","n","i","l",">">>
         ELSE IF t = "*int" THEN <<"0","x","c","0","0","0">>
         ELSE <<"&","{">> \o v.name \o <<"}">>
    [] OTHER -> <<"{","}">>

\* The renderings Parse takes for "no value yet" (part_001 line 106).
EmptyRenderings ==
  { <<"f","a","l","s","e">>, <<"0">>, <<"[","]">>, <<>>, <<"<","n","i","l",">">> }

(***************************************************************************)
(* The environment the resource branches consult.                          *)
(***************************************************************************)
\* Paths os.Open can open.
ExistingFiles == { <<"b","a","s","e",".","g","o">> }
\* Drivers registered with database/sql.
RegisteredDrivers == { <<"p","o","s","t","g","r","e","s">>, <<"m","y">> }

WordChars ==
  { DigitChars[i] : i \in 1..16 } \cup
  {"g","h","i","j","k","l","m","n","o","p","q","r","s","t","u","v","w","x","y","z","_"}

RECURSIVE LeadingWord(_)
LeadingWord(s) ==
  IF s # <<>> /\ Head(s) \in WordChars
    THEN <<Head(s)>> \o LeadingWord(Tail(s))
    ELSE <<>>

\* regexp ((\w+)\/)?([\w\W\d]+) on a non-empty text: m[2] is the leading word
\* when a '/' and at least one more character follow it, m[3] the rest.
DbMatch(val) ==
  LET w == LeadingWord(val)
      hasDriver == /\ w # <<>>
                   /\ Len(val) >= Len(w) + 2
                   /\ val[Len(w) + 1] = "/"
  IN IF hasDriver
       THEN [dvr |-> w, cs |-> SubSeq(val, Len(w) + 2, Len(val))]
       ELSE [dvr |-> <<>>, cs |-> val]

(***************************************************************************)
(* Parse and ParseHard.  Both take the text, the destination's type and    *)
(* its current value, and yield [err, v], v being the destination's value  *)
(* when the call returns.                                                  *)
(***************************************************************************)
RECURSIVE Parse(_, _, _)
RECURSIVE ParseHard(_, _, _)
RECURSIVE Coerce(_, _, _)
RECURSIVE ParseParts(_, _)
RECURSIVE ParsePartsUntrimmed(_, _)

\* Mutant of ParseParts: the parts are not trimmed before they are parsed.
ParsePartsUntrimmed(parts, et) ==
  IF parts = <<>> THEN Ok(<<>>)
  ELSE LET r == Parse(Head(parts), et, Zero(et))
       IN IF r.err # "nil" THEN Fail(r.err, <<>>)
          ELSE LET rest == ParsePartsUntrimmed(Tail(parts), et)
               IN IF rest.err # "nil" THEN rest ELSE Ok(<<r.v>> \o rest.v)

\* The element loop of the slice branch: each trimmed part goes through
\* Parse into the fresh zero element; the first error ends the loop.
ParseParts(parts, et) ==
  IF parts = <<>> THEN Ok(<<>>)
  ELSE LET r == Parse(TrimSpace(Head(parts)), et, Zero(et))
       IN IF r.err # "nil" THEN Fail(r.err, <<>>)
          ELSE LET rest == ParseParts(Tail(parts), et)
               IN IF rest.err # "nil" THEN rest ELSE Ok(<<r.v>> \o rest.v)

\* Lines 119-201 of ParseHard: the switch on the destination's kind.
Coerce(val, t, cur) ==
    CASE Kind(t) = "Bool" ->
           LET r == ParseBool(val) IN IF r.err # "nil" THEN Fail(r.err, cur) ELSE Ok(r.v)
      [] Kind(t) = "Float" ->
           LET r == ParseFloat(val) IN IF r.err # "nil" THEN Fail(r.err, cur) ELSE Ok(r.v)
      [] Kind(t) = "Int" /\ IsDuration(t) ->
           LET r == ParseDuration(val) IN IF r.err # "nil" THEN Fail(r.err, cur) ELSE Ok(r.v)
      [] Kind(t) = "Int" /\ ~IsDuration(t) ->
           LET r == ParseInt(val, Bits(t)) IN IF r.err # "nil" THEN Fail(r.err, cur) ELSE Ok(r.v)
      [] Kind(t) = "Uint" ->
           LET r == ParseUint(val, Bits(t)) IN IF r.err # "nil" THEN Fail(r.err, cur) ELSE Ok(r.v)
      [] Kind(t) = "String" -> Ok(val)
      [] Kind(t) = "Slice" ->
           LET r == ParseParts(Split(val, ";"), ElemType(t))
           IN IF r.err # "nil" THEN Fail(r.err, cur) ELSE Ok(r.v)
      [] Kind(t) \in {"Interface", "Ptr"} ->
           IF t \in FileTypes
             THEN IF val \in ExistingFiles
                    THEN Ok([set |-> TRUE, name |-> val, driver |-> <<>>])
                    ELSE Fail("ErrOpen", cur)
           ELSE IF t = "*sql.DB"
             THEN LET m   == DbMatch(val)
                      dvr == IF m.dvr = <<>> THEN <<"p","o","s","t","g","r","e","s">> ELSE m.dvr
                  IN IF dvr \in RegisteredDrivers
                       THEN Ok([set |-> TRUE, name |-> m.cs, driver |-> dvr])
                       ELSE Fail("ErrDriver", cur)
           ELSE Ok(cur)
      [] OTHER -> Ok(cur)

\* Mutant of ParseHard: the empty text is not set aside.
ParseHardOfAnyText(val, t, cur) == Coerce(val, t, cur)

ParseHard(val, t, cur) ==
  IF val = <<>> THEN Ok(cur) ELSE Coerce(val, t, cur)

\* Mutant of Parse: the current value is not looked at.
ParseUnguarded(val, t, cur) == ParseHard(val, t, cur)

Parse(val, t, cur) ==
  IF Render(t, cur) \in EmptyRenderings THEN ParseHard(val, t, cur) ELSE Ok(cur)

(***************************************************************************)
(* State.                                                                  *)
(***************************************************************************)
VARIABLES
  ltyp,    \* coercion: the type of the destination location
  lval,    \* coercion: the destination's current value
  hist,    \* coercion: the two most recent calls, [op, text, before, after, err]
  nops,    \* coercion: number of calls made so far
  api,     \* scanner: the entry point called, "Scan" or "ScanAll"
  root,    \* scanner: the obj argument of the root call
  heap,    \* scanner: the value stored at every field path of the record
  stack,   \* scanner: the activations of ScanAll, innermost last
  ret,     \* scanner: the error an activation has just returned to its caller
  result,  \* scanner: the error the root call returned, "pending" before
  calls,   \* scanner: the callback invocations so far, in order
  failAt,  \* scanner: position in calls of the callback that returned an error
  failErr, \* scanner: the error that callback returned
  failHeap \* scanner: the record's values when that callback returned

pvars == <<ltyp, lval, hist, nops>>
svars == <<api, root, heap, stack, ret, result, calls, failAt, failErr, failHeap>>
vars == <<ltyp, lval, hist, nops,
          api, root, heap, stack, ret, result, calls, failAt, failErr, failHeap>>

(***************************************************************************)
(* Inputs of the coercion specification.                                   *)
(***************************************************************************)
ParseTypes ==
  {"bool", "int", "int8", "uint8", "float64", "string", "Duration", "[]int",
   "io.Reader", "*sql.DB", "struct"}

OpenFile == [set |-> TRUE, name |-> <<"b","a","s","e",".","g","o">>, driver |-> <<>>]

\* The values a location may hold when the first call is made.
StartValues(t) ==
  {Zero(t)} \cup
  ( CASE t = "bool" -> {TRUE}
      [] t \in {"int", "int8", "uint8"} -> {7}
      [] t = "float64" -> {[neg |-> FALSE, ip |-> 2, fd |-> <<"5">>]}
      [] t = "string" -> { <<"a">>, <<"0">> }
      [] t = "Duration" -> {[neg |-> FALSE, sec |-> 1, ns |-> 0]}
      [] t = "[]int" -> { <<5>> }
      [] t = "io.Reader" -> {OpenFile}
      [] OTHER -> {} )

Texts ==
  { <<>>,
    <<"t","r","u","e">>, <<"f","a","l","s","e">>, <<"1">>, <<"0">>, <<"4">>,
    <<"x">>, <<"-","5">>, <<"1","2","8">>, <<"3","0","0">>, <<"0","x","1","f">>,
    <<"4",".","5">>,
    <<"1",";","2",";","3">>, <<"1"," ",";"," ","2"," ",";","3">>,
    <<"1",";","x">>, <<";">>, <<" ">>,
    <<"1","h","3","0","m">>, <<"9","0","m">>, <<"1",".","5","h">>, <<"5","m","s">>,
    <<"b","a","s","e",".","g","o">>, <<"m","y","/","u">>, <<"o","r","a","/","u">> }

\* The scanner is idle in the coercion specification.
ScannerIdle ==
  /\ api = "ScanAll"
  /\ root = [typ |-> "int", isNil |-> FALSE]
  /\ heap = <<>>
  /\ stack = <<>>
  /\ ret = "none"
  /\ result = "pending"
  /\ calls = <<>>
  /\ failAt = 0
  /\ failErr = "nil"
  /\ failHeap = <<>>

ParseInit ==
  /\ ltyp \in ParseTypes
  /\ lval \in StartValues(ltyp)
  /\ hist = <<>>
  /\ nops = 0
  /\ ScannerIdle

Record(op, text, r) ==
  LET e == [op |-> op, text |-> text, before |-> lval, after |-> r.v, err |-> r.err]
  IN IF hist = <<>> THEN <<e>> ELSE <<hist[Len(hist)], e>>

\* A caller applies Parse(text, &location).
DoParse(text) ==
  /\ nops < MaxOps
  /\ LET r == Parse(text, ltyp, lval)
     IN /\ lval' = r.v
        /\ hist' = Record("Parse", text, r)
  /\ nops' = nops + 1
  /\ UNCHANGED <<ltyp, svars>>

\* A caller applies ParseHard(text, &location).
DoParseHard(text) ==
  /\ nops < MaxOps
  /\ LET r == ParseHard(text, ltyp, lval)
     IN /\ lval' = r.v
        /\ hist' = Record("ParseHard", text, r)
  /\ nops' = nops + 1
  /\ UNCHANGED <<ltyp, svars>>

ParseNext ==
  \/ \E text \in Texts : DoParse(text)
  \/ \E text \in Texts : DoParseHard(text)

ParseSpec == ParseInit /\ [][ParseNext]_vars

(***************************************************************************)
(* Properties of the coercion routines (checked under ParseSpec).          *)
(***************************************************************************)
Last == hist[Len(hist)]

TextTrue    == <<"t","r","u","e">>
TextFalse   == <<"f","a","l","s","e">>
Text123     == <<"1",";","2",";","3">>
Text123Sp   == <<"1"," ",";"," ","2"," ",";","3">>
Text1h30m   == <<"1","h","3","0","m">>
NinetyMinutes == [neg |-> FALSE, sec |-> 5400, ns |-> 0]

\* What each well-formed text of Texts denotes for a destination type,
\* written out by hand from the Go documentation of the conversions.
Denotes(t, text) ==
  CASE t = "bool" /\ text \in {TextTrue, <<"1">>} -> <<TRUE>>
    [] t = "bool" /\ text \in {TextFalse, <<"0">>} -> <<FALSE>>
    [] t \in {"int", "int8", "uint8"} /\ text = <<"1">> -> <<1>>
    [] t \in {"int", "int8", "uint8"} /\ text = <<"0">> -> <<0>>
    [] t \in {"int", "int8", "uint8"} /\ text = <<"4">> -> <<4>>
    [] t \in {"int", "int8", "uint8"} /\ text = <<"0","x","1","f">> -> <<31>>
    [] t \in {"int", "int8"} /\ text = <<"-","5">> -> <<-5>>
    [] t \in {"int", "uint8"} /\ text = <<"1","2","8">> -> <<128>>
    [] t = "int" /\ text = <<"3","0","0">> -> <<300>>
    [] t = "float64" /\ text = <<"4",".","5">> -> <<[neg |-> FALSE, ip |-> 4, fd |-> <<"5">>]>>
    [] t = "float64" /\ text = <<"4">> -> <<[neg |-> FALSE, ip |-> 4, fd |-> <<>>]>>
    [] t = "string" /\ text # <<>> -> <<text>>
    [] t = "[]int" /\ text \in {Text123, Text123Sp} -> <<(<<1, 2, 3>>)>>
    [] t = "Duration" /\ text \in {Text1h30m, <<"9","0","m">>, <<"1",".","5","h">>}
         -> <<NinetyMinutes>>
    [] t = "io.Reader" /\ text = <<"b","a","s","e",".","g","o">> -> <<OpenFile>>
    [] OTHER -> <<>>

\* C5: Parse returns success and leaves the location unchanged, for every
\* text, whenever the location's value does not render as false, 0, [], the
\* empty string or <nil>; so a second Parse after a Parse that left the
\* location non-empty changes nothing and a true boolean stays true under
\* Parse("false"); ParseHard with a non-empty well-formed text assigns the
\* value the text denotes whatever the location held.
ParseKeepsNonEmpty ==
  hist # <<>> =>
    /\ (Last.op = "Parse" /\ Render(ltyp, Last.before) \notin EmptyRenderings)
         => (Last.err = "nil" /\ Last.after = Last.before /\ lval = Last.before)
    /\ (Len(hist) = 2 /\ hist[1].op = "Parse" /\ Last.op = "Parse"
          /\ Render(ltyp, hist[1].after) \notin EmptyRenderings)
         => (Last.err = "nil" /\ lval = hist[1].after)
    /\ (ltyp = "bool" /\ Last.op = "Parse" /\ Last.text = TextFalse /\ Last.before = TRUE)
         => lval = TRUE
    /\ (Last.op = "ParseHard" /\ Denotes(ltyp, Last.text) # <<>>)
         => (Last.err = "nil" /\ lval = Denotes(ltyp, Last.text)[1])

\* C5 witness: a first Parse filled an empty location and a second Parse with
\* a different well-formed text was applied to it.
SecondParseDone ==
  /\ Len(hist) = 2
  /\ hist[1].op = "Parse" /\ hist[2].op = "Parse"
  /\ ltyp = "int"
  /\ hist[1].before = 0 /\ hist[1].text = <<"4">> /\ hist[1].after = 4
  /\ hist[2].text = <<"1">> /\ hist[2].before = 4

\* C7: coercing a non-empty text whose parts are all well-formed into an
\* empty []int assigns one element per ';'-separated part, in order, element
\* i being the integer read from part i after trimming (zero for an empty
\* part); "1;2;3" and "1 ; 2 ;3" both give [1,2,3].
ListCoercion ==
  (hist # <<>> /\ ltyp = "[]int" /\ Last.before = <<>> /\ Last.text # <<>>) =>
    LET parts == Split(Last.text, ";")
        part(i) == TrimSpace(parts[i])
        wellFormed == \A i \in 1..Len(parts) :
                         part(i) = <<>> \/ ParseInt(part(i), 64).err = "nil"
    IN /\ wellFormed =>
            /\ Last.err = "nil"
            /\ Len(lval) = Len(parts)
            /\ \A i \in 1..Len(parts) :
                 lval[i] = IF part(i) = <<>> THEN 0 ELSE ParseInt(part(i), 64).v
       /\ Last.text \in {Text123, Text123Sp} => lval = <<1, 2, 3>>
       /\ Last.text = <<";">> => lval = <<0, 0>>

\* C7 witness: the text with blanks around the delimiters was coerced into an
\* empty list through Parse.
ListWithBlanksCoerced ==
  /\ hist # <<>> /\ ltyp = "[]int"
  /\ Last.op = "Parse" /\ Last.before = <<>> /\ Last.text = Text123Sp
  /\ lval = <<1, 2, 3>>

\* C8: coercing "1h30m" into a time.Duration location holding the zero
\* duration stores the tick count of 90 minutes, through ParseHard and
\* through Parse alike.
DurationCoercion ==
  (hist # <<>> /\ ltyp = "Duration" /\ Last.before = DurZero /\ Last.text = Text1h30m)
    => (Last.err = "nil" /\ lval = NinetyMinutes)

\* C9: the destination changes only on a successful coercion of a non-empty
\* text into a supported kind: empty text and unrecognized types succeed
\* without touching it, and every error leaves it at its prior value.
ParseFrame ==
  hist # <<>> =>
    /\ lval = Last.after
    /\ Last.text = <<>> => (Last.err = "nil" /\ lval = Last.before)
    /\ ltyp = "struct" => (Last.err = "nil" /\ lval = Last.before)
    /\ Last.err # "nil" => lval = Last.before
    /\ lval # Last.before =>
         (Last.err = "nil" /\ Last.text # <<>> /\ ltyp # "struct")

\* C9 witness: ParseHard met a malformed element in the second part of a
\* list text while the destination held a one-element list.
ListElementFailed ==
  /\ hist # <<>> /\ ltyp = "[]int"
  /\ Last.op = "ParseHard" /\ Last.text = <<"1",";","x">>
  /\ Last.before = <<5>> /\ Last.err = "ErrSyntax"

(***************************************************************************)
(* The scanner.  Record types and the record scanned.                      *)
(***************************************************************************)
Fld(name, typ, exported, tag) ==
  [name |-> name, typ |-> typ, exported |-> exported, tag |-> tag]

\* The fields of each record type, in declaration order.  Names starting
\* with a lower-case letter are unexported.
Fields(T) ==
  CASE T = "Outer" ->
         << Fld("A",      "int",    TRUE,  <<"4">>),
            Fld("hidden", "string", FALSE, <<"x">>),
            Fld("inner",  "Inner",  FALSE, <<>>),
            Fld("In",     "Inner",  TRUE,  <<>>),
            Fld("P",      "*Inner", TRUE,  <<"4">>),
            Fld("q",      "*Inner", FALSE, <<>>),
            Fld("N",      "*int",   TRUE,  <<>>),
            Fld("B",      "bool",   TRUE,  <<"m","a","y","b","e">>) >>
    [] T = "Inner" ->
         << Fld("X", "int",   TRUE,  <<"4">>),
            Fld("y", "int",   FALSE, <<"4">>),
            Fld("D", "*Deep", TRUE,  <<>>) >>
    [] T = "Deep" ->
         << Fld("Z", "bool", TRUE, <<"t","r","u","e">>) >>
    [] OTHER -> <<>>

\* The record type whose fields live below a field of type t, if any.
RecordBelow(t) ==
  IF Kind(t) = "Struct" THEN t
  ELSE IF Kind(t) = "Ptr" /\ Kind(ElemType(t)) = "Struct" THEN ElemType(t)
  ELSE "none"

RECURSIVE PathsOf(_, _)
PathsOf(T, prefix) ==
  UNION { LET p == Append(prefix, i)
              b == RecordBelow(Fields(T)[i].typ)
          IN {p} \cup (IF b = "none" THEN {} ELSE PathsOf(b, p))
          : i \in 1..Len(Fields(T)) }

\* Every field path of a record of type Outer.
AllPaths == PathsOf("Outer", <<>>)

\* The field descriptor (reflect.StructField) at a path.
RECURSIVE FieldAt(_, _)
FieldAt(T, p) ==
  IF Len(p) = 1 THEN Fields(T)[p[1]]
  ELSE FieldAt(RecordBelow(Fields(T)[p[1]].typ), Tail(p))

FieldOf(p) == FieldAt("Outer", p)

NonNilHandle == [set |-> TRUE, name |-> <<>>, driver |-> <<>>]

PtrPaths == { p \in AllPaths : Kind(FieldOf(p).typ) = "Ptr" }

\* The pointer fields the caller may have left nil: P, q, N, In.D and P.D.
\* (inner.D and q.D lie below unexported fields and are kept allocated.)
OptionalPaths == PtrPaths \ { <<3, 3>>, <<6, 3>> }

\* The record as the caller built it: leaves at their zero values, the
\* pointers of nonNil allocated.
HeapWith(nonNil) ==
  [ p \in AllPaths |->
      IF p \in PtrPaths
        THEN IF p \in nonNil \/ p \notin OptionalPaths THEN NonNilHandle ELSE NilHandle
        ELSE Zero(FieldOf(p).typ) ]

\* The arguments a caller may hand to Scan/ScanAll as obj.
RootObjects ==
  { [typ |-> "*Outer", isNil |-> FALSE],
    [typ |-> "*Outer", isNil |-> TRUE],
    [typ |-> "Outer",  isNil |-> FALSE],
    [typ |-> "*int",   isNil |-> FALSE],
    [typ |-> "int",    isNil |-> FALSE] }

(***************************************************************************)
(* reflect.Value: the place it refers to (a field path; <<>> is the root   *)
(* record), its type, and the flags flagAddr and flagRO.                   *)
(***************************************************************************)
Val(path, typ, addr, ro) ==
  [path |-> path, typ |-> typ, addr |-> addr, ro |-> ro, valid |-> TRUE]

InvalidValue ==
  [path |-> <<>>, typ |-> "invalid", addr |-> FALSE, ro |-> FALSE, valid |-> FALSE]

\* reflect.ValueOf(obj).Elem() of a non-nil pointer obj
ElemOfRoot(obj, at) == Val(at, ElemType(obj.typ), TRUE, FALSE)

\* rv.Field(i): inherits flagAddr and flagRO, and an unexported field forces
\* flagRO.
Field(rv, i) ==
  LET fd == Fields(rv.typ)[i]
  IN Val(Append(rv.path, i), fd.typ, rv.addr, rv.ro \/ ~fd.exported)

\* f.Elem() of a pointer field: the zero Value for a nil pointer, else the
\* addressable pointee, which inherits flagRO.
Elem(f) ==
  IF ~heap[f.path].set THEN InvalidValue
  ELSE Val(f.path, ElemType(f.typ), TRUE, f.ro)

\* f.Addr(): a pointer to f, which keeps flagRO.
Addr(f) == [typ |-> "*" \o f.typ, isNil |-> FALSE, at |-> f.path, ro |-> f.ro]

\* Mutant of CanInterface: the read-only flag is not looked at.
CanInterfaceAlways(a) == TRUE

CanInterface(a) == ~a.ro

\* Mutant of CanSet: addressable is taken for settable.
CanSetIfAddressable(f) == f.addr

CanSet(f) == f.addr /\ ~f.ro

\* Mutant of AddrInterface: the field itself is passed on, not its address.
FieldInterface(f) == [typ |-> f.typ, isNil |-> FALSE, at |-> f.path]

\* f.Addr().Interface(): the pointer as a plain interface value.
AddrInterface(f) == [typ |-> Addr(f).typ, isNil |-> FALSE, at |-> f.path]

\* t.Field(i) for the field a Value came from.
StructField(f) == FieldOf(f.path)

(***************************************************************************)
(* ScanAll as a machine: one activation per (recursive) call, each         *)
(* [rv, i, pc, f] with rv the record scanned, i the loop index, f the      *)
(* field Value of the iteration and pc the place in the loop body.         *)
(***************************************************************************)
Top == stack[Len(stack)]
Rest == SubSeq(stack, 1, Len(stack) - 1)
SetTop(fr) == Append(Rest, fr)

Running == stack # <<>> /\ ret = "none"

\* Lines 54-62: the checks on obj; "ErrNoPtr", or the record Value.
Enter(obj, at) ==
  IF Kind(obj.typ) # "Ptr" \/ obj.isNil THEN [err |-> "ErrNoPtr", rv |-> InvalidValue]
  ELSE IF Kind(ElemType(obj.typ)) # "Struct" THEN [err |-> "ErrNoPtr", rv |-> InvalidValue]
  ELSE [err |-> "nil", rv |-> ElemOfRoot(obj, at)]

NewFrame(rv) == [rv |-> rv, i |-> 1, pc |-> "field", f |-> InvalidValue]

ScanInit ==
  /\ ltyp = "int" /\ lval = 0 /\ hist = <<>> /\ nops = 0
  /\ api \in {"Scan", "ScanAll"}
  /\ root \in RootObjects
  /\ \E nonNil \in SUBSET OptionalPaths : heap = HeapWith(nonNil)
  /\ stack = <<>>
  /\ ret = "none"
  /\ result = "pending"
  /\ calls = <<>>
  /\ failAt = 0
  /\ failErr = "nil"
  /\ failHeap = heap

\* The root call: Scan(obj, onProperty) or ScanAll(obj, onStruct, onProperty).
ScanAllCall ==
  /\ result = "pending" /\ stack = <<>> /\ ret = "none" /\ calls = <<>>
  /\ LET e == Enter(root, <<>>)
     IN IF e.err # "nil"
          THEN /\ ret' = e.err
               /\ UNCHANGED stack
          ELSE /\ stack' = <<NewFrame(e.rv)>>
               /\ UNCHANGED ret
  /\ UNCHANGED <<pvars, api, root, heap, result, calls, failAt, failErr, failHeap>>

\* Mutant of FieldSwitch: the recursion starts without the onStruct call.
FieldSwitchWithoutHook ==
  /\ Running /\ Top.pc = "field" /\ Top.i <= Len(Fields(Top.rv.typ))
  /\ LET f0 == Field(Top.rv, Top.i)
         isPtrToRecord == Kind(f0.typ) = "Ptr" /\ Kind(Elem(f0).typ) = "Struct"
         f  == IF isPtrToRecord THEN Elem(f0) ELSE f0
     IN IF Kind(f.typ) = "Struct"
          THEN IF ~CanInterface(Addr(f))
                 THEN stack' = SetTop([Top EXCEPT !.i = Top.i + 1])
                 ELSE stack' = SetTop([Top EXCEPT !.pc = "recurse", !.f = f])
          ELSE stack' = SetTop([Top EXCEPT !.pc = "prop", !.f = f])
  /\ UNCHANGED <<pvars, api, root, heap, ret, result, calls, failAt, failErr, failHeap>>

\* Mutant of FieldSwitch: a pointer that holds no record ends the iteration
\* (continue in the place of break, line 70).
FieldSwitchContinue ==
  /\ Running /\ Top.pc = "field" /\ Top.i <= Len(Fields(Top.rv.typ))
  /\ LET f0 == Field(Top.rv, Top.i)
         isPtrToRecord == Kind(f0.typ) = "Ptr" /\ Kind(Elem(f0).typ) = "Struct"
         f  == IF isPtrToRecord THEN Elem(f0) ELSE f0
     IN IF Kind(f.typ) = "Struct"
          THEN IF ~CanInterface(Addr(f))
                 THEN stack' = SetTop([Top EXCEPT !.i = Top.i + 1])
                 ELSE stack' = SetTop([Top EXCEPT !.pc = "onStruct", !.f = f])
          ELSE IF Kind(f.typ) = "Ptr"
                 THEN stack' = SetTop([Top EXCEPT !.i = Top.i + 1])
                 ELSE stack' = SetTop([Top EXCEPT !.pc = "prop", !.f = f])
  /\ UNCHANGED <<pvars, api, root, heap, ret, result, calls, failAt, failErr, failHeap>>

\* Lines 65-79: the next field and the switch on its kind.  The outcome is
\* the place the iteration goes on from: the onStruct call (line 81) with
\* f the record, the settability check (line 91) with f the field, or the
\* next iteration (continue, line 78).
FieldSwitch ==
  /\ Running /\ Top.pc = "field" /\ Top.i <= Len(Fields(Top.rv.typ))
  /\ LET f0 == Field(Top.rv, Top.i)
         isPtrToRecord == Kind(f0.typ) = "Ptr" /\ Kind(Elem(f0).typ) = "Struct"
         f  == IF isPtrToRecord THEN Elem(f0) ELSE f0
     IN IF Kind(f.typ) = "Struct"
          THEN IF ~CanInterface(Addr(f))
                 THEN stack' = SetTop([Top EXCEPT !.i = Top.i + 1])
                 ELSE stack' = SetTop([Top EXCEPT !.pc = "onStruct", !.f = f])
          ELSE stack' = SetTop([Top EXCEPT !.pc = "prop", !.f = f])
  /\ UNCHANGED <<pvars, api, root, heap, ret, result, calls, failAt, failErr, failHeap>>

\* An error leaves the activation: return err.
ReturnErr(err) ==
  /\ stack' = Rest
  /\ ret' = err

\* Lines 81-83: onStruct(t.Field(i)).  Under Scan the hook is the no-op
\* closure of line 49; under ScanAll the caller's hook may return an error.
CallOnStruct(outcome) ==
  /\ Running /\ Top.pc = "onStruct"
  /\ (api = "Scan") => outcome = "nil"
  /\ calls' = Append(calls, [cb |-> "onStruct", path |-> Top.f.path])
  /\ IF outcome # "nil"
       THEN /\ ReturnErr(outcome)
            /\ failAt' = Len(calls) + 1
            /\ failErr' = outcome
            /\ failHeap' = heap
       ELSE /\ stack' = SetTop([Top EXCEPT !.pc = "recurse"])
            /\ UNCHANGED <<ret, failAt, failErr, failHeap>>
  /\ UNCHANGED <<pvars, api, root, heap, result>>

\* Line 85: ScanAll(f.Addr().Interface(), onStruct, onProperty).
Recurse ==
  /\ Running /\ Top.pc = "recurse"
  /\ LET e == Enter(AddrInterface(Top.f), Top.f.path)
     IN IF e.err # "nil"
          THEN /\ stack' = SetTop([Top EXCEPT !.pc = "wait"])
               /\ ret' = e.err
          ELSE /\ stack' = Append(SetTop([Top EXCEPT !.pc = "wait"]), NewFrame(e.rv))
               /\ UNCHANGED ret
  /\ UNCHANGED <<pvars, api, root, heap, result, calls, failAt, failErr, failHeap>>

\* Mutant of Returned: the error of the recursive call is dropped.
ReturnedDroppingError ==
  /\ stack # <<>> /\ ret # "none" /\ Top.pc = "wait"
  /\ stack' = SetTop([Top EXCEPT !.pc = "prop"])
  /\ ret' = "none"
  /\ UNCHANGED <<pvars, api, root, heap, result, calls, failAt, failErr, failHeap>>

\* Lines 85-87: the recursive call has returned; an error is returned on,
\* otherwise the iteration goes on to the settability check.
Returned ==
  /\ stack # <<>> /\ ret # "none" /\ Top.pc = "wait"
  /\ IF ret # "nil"
       THEN /\ stack' = Rest
            /\ UNCHANGED ret
       ELSE /\ stack' = SetTop([Top EXCEPT !.pc = "prop"])
            /\ ret' = "none"
  /\ UNCHANGED <<pvars, api, root, heap, result, calls, failAt, failErr, failHeap>>

\* Lines 91-93: a field that cannot be set is passed over.
SkipUnsettable ==
  /\ Running /\ Top.pc = "prop"
  /\ ~CanSet(Top.f)
  /\ stack' = SetTop([Top EXCEPT !.pc = "field", !.i = Top.i + 1])
  /\ UNCHANGED <<pvars, api, root, heap, ret, result, calls, failAt, failErr, failHeap>>

\* Lines 95-97: onProperty(t.Field(i), &f).  The callback is one that looks
\* at nothing ("nop"), the one of TestScanAndParse (base.go lines 184-196:
\* nothing for an empty tag, else Parse(tag, value)), or one that returns an
\* error of its own.
CallOnProperty(behaviour) ==
  /\ Running /\ Top.pc = "prop"
  /\ CanSet(Top.f)
  /\ LET tag == StructField(Top.f).tag
         r   == IF behaviour = "errField" THEN Fail("errField", heap[Top.f.path])
                ELSE IF behaviour = "nop" \/ tag = <<>> THEN Ok(heap[Top.f.path])
                ELSE Parse(tag, Top.f.typ, heap[Top.f.path])
     IN /\ calls' = Append(calls, [cb |-> "onProperty", path |-> Top.f.path])
        /\ heap' = [heap EXCEPT ![Top.f.path] = r.v]
        /\ IF r.err # "nil"
             THEN /\ ReturnErr(r.err)
                  /\ failAt' = Len(calls) + 1
                  /\ failErr' = r.err
                  /\ failHeap' = heap'
             ELSE /\ stack' = SetTop([Top EXCEPT !.pc = "field", !.i = Top.i + 1])
                  /\ UNCHANGED <<ret, failAt, failErr, failHeap>>
  /\ UNCHANGED <<pvars, api, root, result>>

\* Line 100: the loop is over, return nil.
LoopExit ==
  /\ Running /\ Top.pc = "field" /\ Top.i > Len(Fields(Top.rv.typ))
  /\ stack' = Rest
  /\ ret' = "nil"
  /\ UNCHANGED <<pvars, api, root, heap, result, calls, failAt, failErr, failHeap>>

\* The root call returns to the caller of Scan/ScanAll.
Finish ==
  /\ stack = <<>> /\ ret # "none" /\ result = "pending"
  /\ result' = ret
  /\ ret' = "none"
  /\ UNCHANGED <<pvars, api, root, heap, stack, calls, failAt, failErr, failHeap>>

ScanNext ==
  \/ ScanAllCall
  \/ FieldSwitch
  \/ \E outcome \in {"nil", "errStruct"} : CallOnStruct(outcome)
  \/ Recurse
  \/ Returned
  \/ SkipUnsettable
  \/ \E behaviour \in {"nop", "test", "errField"} : CallOnProperty(behaviour)
  \/ LoopExit
  \/ Finish

ScanSpec == ScanInit /\ [][ScanNext]_vars

(***************************************************************************)
(* Properties of the scanner (checked under ScanSpec).                     *)
(***************************************************************************)
Prefix(p, k) == SubSeq(p, 1, k)

IsProperPrefix(q, p) == Len(q) < Len(p) /\ Prefix(p, Len(q)) = q

\* Every field on the way to p, and p itself, has an exported name.
AllExported(p) == \A k \in 1..Len(p) : FieldOf(Prefix(p, k)).exported

\* The field at p holds a record: directly, or through a non-nil pointer.
HoldsRecord(p) ==
  \/ Kind(FieldOf(p).typ) = "Struct"
  \/ /\ Kind(FieldOf(p).typ) = "Ptr"
     /\ Kind(ElemType(FieldOf(p).typ)) = "Struct"
     /\ heap[p].set

\* The field at p exists in the record: no nil pointer on the way to it.
Live(p) == \A k \in 1..(Len(p) - 1) : HoldsRecord(Prefix(p, k))

\* The field at p is one a caller outside the package may set.
Settable(p) == Live(p) /\ AllExported(p)

Calls(cb, p) == { k \in 1..Len(calls) : calls[k].cb = cb /\ calls[k].path = p }

GoodRoot == root = [typ |-> "*Outer", isNil |-> FALSE]

\* C1: no unexported field is ever passed to onProperty, whatever its tag,
\* and neither is any field below an unexported field.
UnexportedNeverVisited ==
  \A k \in 1..Len(calls) :
    calls[k].cb = "onProperty" => AllExported(calls[k].path)

\* C1 witness: a scan over a record with a tagged unexported leaf, an
\* unexported nested record and an allocated unexported pointer has returned
\* nil after visiting the exported fields.
ScanPassedUnexported ==
  /\ GoodRoot /\ result = "nil"
  /\ heap[<<6>>].set
  /\ FieldOf(<<2>>).tag # <<>> /\ ~FieldOf(<<2>>).exported
  /\ Calls("onProperty", <<8>>) # {}

\* C2: fields are processed in declaration order, and for a nested-record
\* field the order is onStruct for the field, then every call for the fields
\* of the nested record, then onProperty for the field itself; no onProperty
\* of a nested field precedes the onStruct of the field that contains it.
CallbackOrder ==
  /\ \A a, b \in 1..Len(calls) :
       a < b =>
         LET pa == calls[a].path
             pb == calls[b].path
         IN IF pa = pb
              THEN calls[a].cb = "onStruct" /\ calls[b].cb = "onProperty"
            ELSE IF IsProperPrefix(pa, pb) THEN calls[a].cb = "onStruct"
            ELSE IF IsProperPrefix(pb, pa) THEN calls[b].cb = "onProperty"
            ELSE \E k \in 1..Len(pa) :
                   /\ k <= Len(pb)
                   /\ Prefix(pa, k - 1) = Prefix(pb, k - 1)
                   /\ pa[k] < pb[k]
  /\ \A b \in 1..Len(calls) :
       Len(calls[b].path) > 1 =>
         \E a \in 1..(b - 1) :
           /\ calls[a].cb = "onStruct"
           /\ calls[a].path = Prefix(calls[b].path, Len(calls[b].path) - 1)
  /\ (result = "nil" /\ GoodRoot) =>
       \A p \in AllPaths :
         (Settable(p) /\ HoldsRecord(p)) =>
           /\ Cardinality(Calls("onStruct", p)) = 1
           /\ Cardinality(Calls("onProperty", p)) = 1
           /\ \A q \in AllPaths :
                (IsProperPrefix(p, q) /\ Settable(q)) =>
                  \E k \in Calls("onProperty", q) :
                    \A s \in Calls("onStruct", p), e \in Calls("onProperty", p) :
                      s < k /\ k < e

\* C2 witness: a scan through In and through the allocated pointers P and
\* P.D has returned nil.
NestedScanDone ==
  /\ GoodRoot /\ result = "nil"
  /\ heap[<<5>>].set /\ heap[<<5, 3>>].set
  /\ Calls("onProperty", <<5, 3, 1>>) # {}
  /\ Calls("onProperty", <<5>>) # {}

\* C3: when a callback returns an error at any depth, the root call returns
\* that same error, no callback is invoked after the failing one, and the
\* values earlier callbacks assigned stay in place.
ErrorAbortsScan ==
  /\ failAt # 0 =>
       /\ Len(calls) = failAt
       /\ heap = failHeap
       /\ result \in {"pending", failErr}
       /\ ret \in {"none", failErr}
  /\ (failAt = 0 /\ result # "pending") => result \in {"nil", "ErrNoPtr"}

\* C3 witness: onProperty failed two levels down, after an earlier callback
\* had assigned 4 to A, and the root call has returned that error.
DeepErrorReturned ==
  /\ failAt # 0 /\ result = "errField"
  /\ calls[failAt].path = <<5, 3, 1>>
  /\ heap[<<1>>] = 4

\* C4: a root that is no pointer, a nil pointer or a pointer to a non-record
\* yields ErrNoPtr and no callback; a non-nil pointer to a record never
\* yields ErrNoPtr, at the root or from the recursion.
ErrNoPtrOnlyForBadRoot ==
  /\ ~GoodRoot =>
       /\ calls = <<>> /\ stack = <<>>
       /\ result \in {"pending", "ErrNoPtr"}
       /\ ret \in {"none", "ErrNoPtr"}
  /\ GoodRoot => (result # "ErrNoPtr" /\ ret # "ErrNoPtr")

\* C4 witness: the root call on a nil pointer has returned.
NilRootRejected ==
  /\ root = [typ |-> "*Outer", isNil |-> TRUE]
  /\ result = "ErrNoPtr"

\* C6: in a scan without callback errors every settable field is passed to
\* onProperty exactly once; a settable field that is a nil pointer, or a
\* pointer to a non-record, gets its one call at its own level, no onStruct,
\* and nothing below it is visited.
SettableVisitedOnce ==
  (GoodRoot /\ result = "nil") =>
    \A p \in AllPaths :
      /\ Settable(p) => Cardinality(Calls("onProperty", p)) = 1
      /\ (Settable(p) /\ Kind(FieldOf(p).typ) = "Ptr" /\ ~HoldsRecord(p)) =>
           /\ Calls("onStruct", p) = {}
           /\ \A k \in 1..Len(calls) : ~IsProperPrefix(p, calls[k].path)

\* C6 witness: an error-free scan over a record whose P and In.D are nil and
\* whose N points to an int.
NilPointersVisited ==
  /\ GoodRoot /\ result = "nil" /\ failAt = 0
  /\ ~heap[<<5>>].set /\ ~heap[<<4, 3>>].set /\ heap[<<7>>].set
  /\ Calls("onProperty", <<5>>) # {} /\ Calls("onProperty", <<7>>) # {}

\* The nested-record fields that fail the settability check at a level the
\* scan goes through: unexported records and allocated unexported pointers
\* to records, in a record that is itself reached.
UnsettableRecords ==
  { p \in AllPaths :
      /\ Live(p) /\ HoldsRecord(p)
      /\ AllExported(Prefix(p, Len(p) - 1))
      /\ ~FieldOf(p).exported }

\* C10 as stated: such a field is still recursed into and still gets its
\* onStruct call, and never its onProperty call.
UnsettableRecordStillNotified ==
  (GoodRoot /\ result = "nil") =>
    \A p \in UnsettableRecords :
      /\ Calls("onStruct", p) # {}
      /\ Calls("onProperty", p) = {}

\* C10 as amended: such a field is not recursed into and gets neither its
\* onStruct call nor its onProperty call.
UnsettableRecordSkipped ==
  \A p \in UnsettableRecords :
    /\ Calls("onStruct", p) = {}
    /\ Calls("onProperty", p) = {}
    /\ \A k \in 1..Len(calls) : ~IsProperPrefix(p, calls[k].path)
    /\ \A k \in 1..Len(stack) : stack[k].rv.path # p

\* C10 witness: a scan has gone past the unexported record inner and the
\* allocated unexported pointer q and returned nil.
ScanPassedUnsettableRecords ==
  /\ GoodRoot /\ result = "nil"
  /\ heap[<<6>>].set
  /\ {<<3>>, <<6>>} \subseteq UnsettableRecords
  /\ Calls("onProperty", <<7>>) # {}

====
